---- MODULE Spec2Model ----
(***************************************************************************)
(* Model of src/predict.py: the Predictor of a FLUX text-to-image service  *)
(* with hot-swappable LoRA adapters, a safety filter and an FSRCNN         *)
(* upscaler.  One action, Predict, models one whole call of                *)
(* Predictor.predict; requests are handled one at a time.                  *)
(*                                                                         *)
(* Conventions                                                             *)
(*  - Python None and the empty list are both the empty sequence << >>     *)
(*    (the code only tests them for truthiness).                           *)
(*  - A LoRA file is a natural number; file f exists in the loras folder   *)
(*    iff f \in 1..DirSize.                                                *)
(*  - A scale is an opaque string ("0.8"): the code only copies scales.    *)
(*  - A path is a sequence of string tokens, "." being one token.          *)
(*  - Batch index i of the code (0-based) is position i+1 of a sequence.   *)
(***************************************************************************)
EXTENDS Integers, Sequences, FiniteSets, TLC

(***************************************************************************)
(* Bounds of the model                                                     *)
(***************************************************************************)
\* number of files present in the loras folder (files 1..DirSize exist)
DirSize == 27
\* longest adapter list enumerated exhaustively over ShortFiles
MaxLoras == 2

(***************************************************************************)
(* Program constants                                                       *)
(***************************************************************************)
MAX_IMAGE_SIZE == 1440

\* num_outputs: ge=1, le=4
MaxOutputs == 4

ASPECT_RATIOS ==
    ("1:1" :> <<1024, 1024>>) @@ ("16:9" :> <<1344, 768>>) @@
    ("21:9" :> <<1536, 640>>) @@ ("3:2" :> <<1216, 832>>) @@
    ("2:3" :> <<832, 1216>>) @@ ("4:5" :> <<896, 1088>>) @@
    ("5:4" :> <<1088, 896>>) @@ ("3:4" :> <<896, 1152>>) @@
    ("4:3" :> <<1152, 896>>) @@ ("9:16" :> <<768, 1344>>) @@
    ("9:21" :> <<640, 1536>>)

\* the adapter identifiers of load_loras
names ==
    << "a","b","c","d","e","f","g","h","i","j","k","l","m",
       "n","o","p","q","r","s","t","u","v","w","x","y","z" >>

OutputFormats == {"webp", "jpg", "png"}

NoImage == << >>

VARIABLES
    last_loaded_loras,  \* self.last_loaded_loras
    attached,           \* adapters loaded into the shared transformer, in load order
    active_adapters,    \* arguments of the last set_adapters call still in force
    req,                \* the request handled last
    result,             \* how that call of predict ended
    pipe,               \* the pipeline object it selected
    width, height,      \* predict's locals width and height when it ended
    flux_kwargs,        \* predict's flux_kwargs when it ended
    pipe_called,        \* whether pipe(**common_args, **flux_kwargs) ran
    unload_calls,       \* unload_lora_weights calls made by that request
    load_calls,         \* load_lora_weights calls made by that request
    saved,              \* paths written by that request (img.save, upscaled_img.save)
    output_paths,       \* predict's local output_paths
    upscale_calls,      \* upscaler.upsample calls made by that request
    returned,           \* the list predict returned (<< >> when it raised)
    repeated            \* the request before this one returned normally and named the same hf_loras

vars == << last_loaded_loras, attached, active_adapters, req, result, pipe,
           width, height, flux_kwargs, pipe_called, unload_calls, load_calls,
           saved, output_paths, upscale_calls, returned, repeated >>

(***************************************************************************)
(* Pure helpers                                                            *)
(***************************************************************************)
Max(a, b) == IF a >= b THEN a ELSE b

Min(a, b) == IF a <= b THEN a ELSE b

aspect_ratio_to_width_height(aspect_ratio) == ASPECT_RATIOS[aspect_ratio]

make_multiple_of_16_RoundsDown(n) == (n \div 16) * 16

make_multiple_of_16(n) == ((n + 15) \div 16) * 16

\* scale = min(MAX_IMAGE_SIZE / width, MAX_IMAGE_SIZE / height, 1) < 1
ScaleBelowOne(w, h) == Max(w, h) > MAX_IMAGE_SIZE

\* int(x * scale) for scale = MAX_IMAGE_SIZE / long < 1, in IEEE double
\* arithmetic: the floor of the exact quotient, or one less than it when the
\* quotient is an integer and the rounded product falls just below it
\* (1 x 2205 gives 1439 for the long edge).  Both outcomes are kept.
ScaledEdge(x, long) ==
    LET q == (x * MAX_IMAGE_SIZE) \div long
        r == (x * MAX_IMAGE_SIZE) % long
    IN  IF r = 0 THEN {q - 1, q} ELSE {q}

\* The possible (width, height) locals after the image branch of predict.
ImageGeometry(image) ==
    LET w == image[1]
        h == image[2]
        long == Max(w, h)
    IN  IF ScaleBelowOne(w, h)
        THEN { << make_multiple_of_16(sw), make_multiple_of_16(sh) >> :
                 sw \in ScaledEdge(w, long), sh \in ScaledEdge(h, long) }
        ELSE { << make_multiple_of_16(w), make_multiple_of_16(h) >> }

\* os.path.exists(os.path.join("loras", lora_filename))
Exists(lora_filename) == lora_filename \in 1..DirSize

\* lines 262-265: the scales handed to load_loras
EffectiveScales(hf_loras, lora_scales) ==
    IF lora_scales = << >>
    THEN [k \in 1..Len(hf_loras) |-> "0.8"]
    ELSE IF Len(lora_scales) = 1 /\ Len(hf_loras) > 1
         THEN [k \in 1..Len(hf_loras) |-> lora_scales[1]]
         ELSE lora_scales

NeedsSwap_Always(hf_loras, last) == TRUE

\* line 260
NeedsSwap(hf_loras, last) == hf_loras # last

\* the for loop of load_loras from position k on; att is the adapters
\* attached so far, count the load_lora_weights calls made so far
RECURSIVE LoadLoop(_, _, _, _)
LoadLoop(lora_names, k, att, count) ==
    IF k > Len(lora_names)
    THEN [attached |-> att, count |-> count, error |-> "none"]
    ELSE IF ~Exists(lora_names[k])
         THEN [attached |-> att, count |-> count, error |-> "FileNotFoundError"]
         ELSE IF count + 1 > Len(names)
              THEN [attached |-> att, count |-> count, error |-> "IndexError"]
              ELSE LoadLoop(lora_names, k + 1,
                            Append(att, [file |-> lora_names[k],
                                         adapter_name |-> names[count + 1]]),
                            count + 1)

\* load_loras, called on a model whose adapters were just unloaded
load_loras(lora_names, lora_scales, last) ==
    LET loop == LoadLoop(lora_names, 1, << >>, 0)
        count == loop.count
        adapter_names == SubSeq(names, 1, count)
        adapter_weights == SubSeq(lora_scales, 1, Min(count, Len(lora_scales)))
    IN  IF loop.error # "none"
        THEN [last_loaded_loras |-> last, attached |-> loop.attached,
              active_adapters |-> << >>, load_calls |-> count,
              error |-> loop.error]
        ELSE [last_loaded_loras |-> lora_names, attached |-> loop.attached,
              active_adapters |->
                  [k \in 1..count |-> [adapter_name |-> adapter_names[k],
                                       weight |-> adapter_weights[k]]],
              load_calls |-> count, error |-> "none"]

\* lines 258-269: the adapter stage of predict
AdapterStage(r, last, att, act) ==
    IF r.hf_loras # << >>
    THEN IF NeedsSwap(r.hf_loras, last)
         THEN [unload_calls |-> 1]
              @@ load_loras(r.hf_loras,
                            EffectiveScales(r.hf_loras, r.lora_scales), last)
         ELSE [last_loaded_loras |-> last, attached |-> att,
               active_adapters |-> act, unload_calls |-> 0, load_calls |-> 0,
               error |-> "none"]
    ELSE [last_loaded_loras |-> last, attached |-> << >>,
          active_adapters |-> << >>, unload_calls |-> 1, load_calls |-> 0,
          error |-> "none"]

Rejected_IgnoresFlag(r, i) == r.has_nsfw_content[i + 1]

\* line 291, for batch index i (0-based)
Rejected(r, i) == ~r.disable_safety_checker /\ r.has_nsfw_content[i + 1]

\* line 294
OutputPath(i, output_format) == << "/tmp/out-", ToString(i), ".", output_format >>

\* str.replace(old, new) on a tokenised path: every occurrence is replaced
Replace(path, old, new) ==
    [k \in 1..Len(path) |-> IF path[k] = old THEN new ELSE path[k]]

\* line 312
UpscaledPath(path) == Replace(path, ".", "-upscaled.")

\* lines 289-299: the save loop from batch index i on
RECURSIVE SaveLoop(_, _)
SaveLoop(r, i) ==
    IF i >= r.num_outputs
    THEN << >>
    ELSE IF Rejected(r, i)
         THEN SaveLoop(r, i + 1)
         ELSE << OutputPath(i, r.output_format) >> \o SaveLoop(r, i + 1)

RaisesNSFW_Never(paths) == FALSE

\* line 301
RaisesNSFW(paths) == Len(paths) = 0

\* lines 305-317: the upscale loop
UpscaleLoop(paths) == [k \in 1..Len(paths) |-> UpscaledPath(paths[k])]

(***************************************************************************)
(* Requests                                                                *)
(***************************************************************************)
Request(aspect_ratio, image, num_outputs, output_format, hf_loras, lora_scales, disable_safety_checker, has_nsfw_content) ==
    [aspect_ratio |-> aspect_ratio, image |-> image,
     num_outputs |-> num_outputs, output_format |-> output_format,
     hf_loras |-> hf_loras, lora_scales |-> lora_scales,
     disable_safety_checker |-> disable_safety_checker,
     has_nsfw_content |-> has_nsfw_content]

\* natural edge lengths of seed images: both sides of 16 and of
\* MAX_IMAGE_SIZE, and long/short pairs whose scaled short edge truncates to 0
ImageEdges ==
    {1, 2, 15, 16, 17, 500, 800, 1425, 1439, 1440, 1441, 1442, 1456, 2205,
     2881, 4000}

\* every token without a seed image, and every seed image under two tokens
GeometryRequests ==
    { Request(a, NoImage, 1, "webp", << 1 >>, << >>, FALSE, << FALSE >>) :
        a \in DOMAIN ASPECT_RATIOS }
    \cup
    { Request(a, im, 1, "webp", << 1 >>, << >>, FALSE, << FALSE >>) :
        a \in {"1:1", "16:9"}, im \in ImageEdges \X ImageEdges }

MissingFile == DirSize + 1

ShortFiles == {1, 2, MissingFile}

Scales == {"0.5", "1.0"}

SeqsUpTo(S, n) == UNION { [1..k -> S] : k \in 0..n }

\* every list of up to MaxLoras files, the longest list that fits the
\* identifiers, and a list one longer
LoraLists ==
    SeqsUpTo(ShortFiles, MaxLoras)
        \cup { [k \in 1..Len(names) |-> k], [k \in 1..(Len(names) + 1) |-> k] }

\* no scales, one scale, or (for the short lists of two or more) one scale
\* per adapter
ScaleLists(hf_loras) ==
    {<< >>} \cup { << s >> : s \in Scales }
        \cup (IF Len(hf_loras) \in 2..MaxLoras
              THEN { [k \in 1..Len(hf_loras) |-> IF k = 1 THEN "0.5" ELSE "1.0"] }
              ELSE {})

\* the classifier verdict varies for the lists of at most one file
AdapterRequests ==
    UNION { { Request("1:1", NoImage, 1, "webp", l, s, FALSE, << nsfw >>) :
                s \in ScaleLists(l),
                nsfw \in (IF Len(l) <= 1 THEN BOOLEAN ELSE {FALSE}) } :
            l \in LoraLists }

FilterRequests ==
    UNION { { Request("1:1", NoImage, n, f, << >>, << >>, d, v) :
                f \in OutputFormats, d \in BOOLEAN, v \in [1..n -> BOOLEAN] } :
            n \in 1..MaxOutputs }

(***************************************************************************)
(* The state machine                                                       *)
(***************************************************************************)
Init ==
    /\ last_loaded_loras = << >>       \* {} : unequal to every non-empty list
    /\ attached = << >>
    /\ active_adapters = << >>
    /\ req = Request("1:1", NoImage, 1, "webp", << >>, << >>, FALSE, << FALSE >>)
    /\ result = "none"
    /\ pipe = "none"
    /\ width = 0
    /\ height = 0
    /\ flux_kwargs = [width |-> 0, height |-> 0, image |-> NoImage,
                      joint_attention_kwargs |-> "unset"]
    /\ pipe_called = FALSE
    /\ unload_calls = 0
    /\ load_calls = 0
    /\ saved = << >>
    /\ output_paths = << >>
    /\ upscale_calls = 0
    /\ returned = << >>
    /\ repeated = FALSE

\* One call of Predictor.predict(r), from entry to return or raise.
Predict(r) ==
    LET table == aspect_ratio_to_width_height(r.aspect_ratio)
        kw0 == [width |-> table[1], height |-> table[2], image |-> NoImage,
                joint_attention_kwargs |-> "unset"]                   \* line 230
    IN
    /\ req' = r
    /\ repeated' = (result = "ok" /\ req.hf_loras = r.hf_loras)
    /\ pipe' = IF r.image # NoImage THEN "img2img_pipe" ELSE "txt2img_pipe"
    /\ \E g \in (IF r.image # NoImage THEN ImageGeometry(r.image) ELSE {table}) :
         LET kw1 == IF r.image # NoImage
                    THEN [kw0 EXCEPT !.image = g]      \* lines 250-252
                    ELSE kw0
             ad == AdapterStage(r, last_loaded_loras, attached, active_adapters)
             kw2 == [kw1 EXCEPT !.joint_attention_kwargs =
                        IF r.hf_loras # << >> THEN "scale 1.0" ELSE "None"]
             out == SaveLoop(r, 0)
         IN
         /\ width' = g[1]
         /\ height' = g[2]
         /\ IF r.image # NoImage /\ (g[1] = 0 \/ g[2] = 0)
            THEN \* line 250: interpolate to an empty size raises
                 /\ result' = "RuntimeError"
                 /\ flux_kwargs' = kw0
                 /\ UNCHANGED << last_loaded_loras, attached, active_adapters >>
                 /\ unload_calls' = 0
                 /\ load_calls' = 0
                 /\ pipe_called' = FALSE
                 /\ saved' = << >>
                 /\ output_paths' = << >>
                 /\ upscale_calls' = 0
                 /\ returned' = << >>
            ELSE
                 /\ last_loaded_loras' = ad.last_loaded_loras
                 /\ attached' = ad.attached
                 /\ active_adapters' = ad.active_adapters
                 /\ unload_calls' = ad.unload_calls
                 /\ load_calls' = ad.load_calls
                 /\ flux_kwargs' = kw2
                 /\ IF ad.error # "none"
                    THEN /\ result' = ad.error
                         /\ pipe_called' = FALSE
                         /\ saved' = << >>
                         /\ output_paths' = << >>
                         /\ upscale_calls' = 0
                         /\ returned' = << >>
                    ELSE /\ pipe_called' = TRUE
                         /\ output_paths' = out
                         /\ IF RaisesNSFW(out)
                            THEN /\ result' = "NSFW"
                                 /\ saved' = out
                                 /\ upscale_calls' = 0
                                 /\ returned' = << >>
                            ELSE /\ result' = "ok"
                                 /\ saved' = out \o UpscaleLoop(out)
                                 /\ upscale_calls' = Len(out)
                                 /\ returned' = UpscaleLoop(out)

NextGeometry == \E r \in GeometryRequests : Predict(r)

NextAdapters == \E r \in AdapterRequests : Predict(r)

NextFilter == \E r \in FilterRequests : Predict(r)

SpecGeometry == Init /\ [][NextGeometry]_vars

SpecAdapters == Init /\ [][NextAdapters]_vars

SpecFilter == Init /\ [][NextFilter]_vars

(***************************************************************************)
(* Properties                                                              *)
(***************************************************************************)
FilesOf(att) == [k \in 1..Len(att) |-> att[k].file]

WeightsOf(act) == [k \in 1..Len(act) |-> act[k].weight]

\* C1: whenever the generation engine runs for a request with a seed image,
\* the width and height it is handed are the ones derived from the image
\* (predict's locals after scaling and alignment).
C1_EngineGeometryFromImage ==
    (pipe_called /\ req.image # NoImage)
        => (flux_kwargs.width = width /\ flux_kwargs.height = height)

\* C2: after a request whose adapter list is empty, no adapter is attached
\* and the tracked last-applied list is empty.
C2_EmptyRequestClearsTracked ==
    (result \in {"ok", "NSFW"} /\ req.hf_loras = << >>)
        => (attached = << >> /\ last_loaded_loras = << >>)

\* C3: a request naming the tracked (and attached) list of files with
\* supplied scales that differ from the active ones reloads: one unload, one
\* load per file, and the new scales become the active ones.
C3_ScaleChangeReloads ==
    [][ ( /\ req'.hf_loras # << >>
          /\ req'.hf_loras = last_loaded_loras
          /\ FilesOf(attached) = last_loaded_loras
          /\ req'.lora_scales # << >>
          /\ EffectiveScales(req'.hf_loras, req'.lora_scales)
                 # WeightsOf(active_adapters) )
        => ( /\ unload_calls' = 1
             /\ load_calls' = Len(req'.hf_loras)
             /\ WeightsOf(active_adapters')
                    = EffectiveScales(req'.hf_loras, req'.lora_scales) ) ]_vars

\* C4: a request naming more adapters than there are identifiers, all of
\* them present on disk, fails with the capacity error having made no
\* load_lora_weights call.
C4_CapacityCheckedBeforeLoading ==
    ( /\ result # "none"
      /\ Len(req.hf_loras) > Len(names)
      /\ \A k \in 1..Len(req.hf_loras) : req.hf_loras[k] \in 1..DirSize )
        => (result = "IndexError" /\ load_calls = 0)

\* C5: a successful request that names the same non-empty adapter list as
\* the successful request right before it makes no unload call and no load
\* call and leaves the tracked list unchanged.
C5_SecondRequestIsNoOp ==
    [][ ( /\ result = "ok"
          /\ result' = "ok"
          /\ req'.hf_loras # << >>
          /\ req'.hf_loras = req.hf_loras )
        => ( /\ unload_calls' = 0
             /\ load_calls' = 0
             /\ last_loaded_loras' = last_loaded_loras ) ]_vars

C5_Witness ==
    /\ repeated
    /\ result = "ok"
    /\ Len(req.hf_loras) = 2
    /\ unload_calls = 0
    /\ load_calls = 0

\* C6: when the checker is enabled and every image of the batch is flagged
\* unsafe, the request fails with the NSFW error, writes no file and never
\* calls the upscaler.
C6_AllUnsafeRejected ==
    ( /\ pipe_called
      /\ ~req.disable_safety_checker
      /\ \A k \in 1..req.num_outputs : req.has_nsfw_content[k] )
        => ( /\ result = "NSFW"
             /\ saved = << >>
             /\ upscale_calls = 0
             /\ returned = << >> )

C6_Witness ==
    /\ result = "NSFW"
    /\ req.num_outputs = MaxOutputs
    /\ pipe_called

\* C7: a successful request returns exactly one upscaled path per batch
\* index that is not rejected (rejected: checker enabled and the image
\* flagged), in increasing index order.
C7_OnePathPerKeptIndex ==
    result = "ok" =>
        LET kept == { i \in 0..(req.num_outputs - 1) :
                        req.disable_safety_checker
                            \/ ~req.has_nsfw_content[i + 1] }
            idx(k) == CHOOSE i \in 0..(req.num_outputs - 1) :
                        returned[k][2] = ToString(i)
        IN  /\ Len(returned) = Cardinality(kept)
            /\ \A k \in 1..Len(returned) :
                 /\ \E i \in kept :
                      returned[k] = << "/tmp/out-", ToString(i), "-upscaled.",
                                       req.output_format >>
                 /\ \A l \in 1..Len(returned) : k < l => idx(k) < idx(l)

C7_Witness ==
    /\ result = "ok"
    /\ req.num_outputs = MaxOutputs
    /\ ~req.disable_safety_checker
    /\ Len(returned) = 2
    /\ returned[1][2] = "1"
    /\ returned[2][2] = "3"

\* C8: for a seed image the resolved width and height are multiples of 16;
\* when the image was downscaled neither exceeds MAX_IMAGE_SIZE; an image
\* with both edges within MAX_IMAGE_SIZE is only rounded up, per edge, to
\* the next multiple of 16.
C8_ImageGeometryAligned ==
    (result # "none" /\ req.image # NoImage) =>
        LET w == req.image[1]
            h == req.image[2]
        IN  /\ width % 16 = 0
            /\ height % 16 = 0
            /\ (w > MAX_IMAGE_SIZE \/ h > MAX_IMAGE_SIZE)
                 => (width <= MAX_IMAGE_SIZE /\ height <= MAX_IMAGE_SIZE)
            /\ (w <= MAX_IMAGE_SIZE /\ h <= MAX_IMAGE_SIZE)
                 => /\ width >= w /\ width - w < 16
                    /\ height >= h /\ height - h < 16

C8_Witness ==
    /\ result = "ok"
    /\ req.image = << 4000, 2205 >>
    /\ width = MAX_IMAGE_SIZE
    /\ height = 800

\* C9: the resolved geometry is a pair of positive integers; for a seed
\* image both are at least 16.
C9_GeometryPositive ==
    result # "none" =>
        IF req.image # NoImage
        THEN width >= 16 /\ height >= 16
        ELSE width > 0 /\ height > 0

\* C10: the tracked last-applied list equals the ordered list of files
\* attached to the shared model.
C10_TrackedEqualsAttached ==
    last_loaded_loras = FilesOf(attached)

====
